---- MODULE Spec2Model ----
\* State-machine model of pyqtgraph's ROI / Handle classes (graphicsItems/ROI.py).
\*
\* Coordinates are integers and angles are the multiples of 90 degrees for which
\* QTransform.rotate() uses exact sines and cosines in both directions (rotate(a) in
\* setAngle, rotate(-a) in stateRect), so every Point operation of the code is computed
\* exactly.  ROIs have no parent item, so scene coordinates are parent coordinates.
EXTENDS Integers, Sequences, FiniteSets, TLC

\* ---------------------------------------------------------------- bounds
MaxCoord == 1      \* positions handed to the ROI: (0,0) .. (MaxCoord,0) and (0,1)
MaxSize == 2       \* sizes handed to the ROI: (1,1) .. (MaxSize,1) and (2,2)
MaxReach == 3      \* a bounded or snapping ROI is followed while |x|, |y| <= MaxReach
MaxDirs == 2       \* a scan directory has at most MaxDirs sub-directories

ROIs == {1, 2}
Items == {"a", "b", "d"}           \* Handle objects
Angles == {0 - 90, 0, 90}
AnglesIn == {0, 90}               \* angles handed to setAngle
PosIn == {<< x, 0 >> : x \in 0 .. MaxCoord} \cup {<< 0, 1 >>}
SizeIn == {<< x, 1 >> : x \in 1 .. MaxSize} \cup {<< 2, 2 >>}

None == << >>                      \* Python None for an optional value
Some(v) == << v >>
Val(o) == o[1]

VARIABLES
    state,            \* ROI.state: pos, size, angle
    lastState,        \* ROI.lastState: None or a copy of state
    freeHandleMoved,  \* ROI.freeHandleMoved
    handles,          \* ROI.handles: list of handle infos (type, pos, center, item)
    itemParent,       \* parent item of every Handle
    itemPos,          \* position of every Handle in its parent's coordinates
    cfg,              \* ROI options: maxBounds, snapSize, translateSnap, translatable,
                      \* invertible, scaleSnap
    hroi,             \* Handle.roi: list of (roi, index) connections
    hIsMoving,        \* Handle.isMoving
    hStartPos,        \* Handle.startPos
    hCursorOffset,    \* Handle.cursorOffset
    preMoveState,     \* ROI.preMoveState: None until the first drag starts
    rIsMoving,        \* ROI.isMoving
    rCursorOffset,    \* ROI.cursorOffset
    veto,             \* ROIs whose class overrides checkPointMove to refuse moves
    pyRound,          \* rounding of halves by round(): "away" (Python 2) or "even" (Python 3)
    caller,           \* objects held by the calling program: the result of saveState()
    scan,             \* the last ScanCanvasItem constructed: its options and the outcome
    dragging,         \* handle for which the scene has a drag in progress, or None
    sig,              \* signals emitted by each ROI during the last operation
    calls,            \* ROI.movePoint invocations made during the last operation
    op                \* the last operation and its arguments

vars == << state, lastState, freeHandleMoved, handles, itemParent, itemPos, cfg, hroi,
           hIsMoving, hStartPos, hCursorOffset, preMoveState, rIsMoving, rCursorOffset,
           veto, pyRound, caller, scan, dragging,
           sig, calls, op >>

\* what no method of ROI or Handle assigns after the handles are set up
static == << handles, itemParent, cfg, hroi, veto, pyRound, caller, scan >>

\* ---------------------------------------------------------------- Point arithmetic
PAdd(p, q) == << p[1] + q[1], p[2] + q[2] >>
PSub(p, q) == << p[1] - q[1], p[2] - q[2] >>
PMul(p, q) == << p[1] * q[1], p[2] * q[2] >>
PScale(p, k) == << p[1] * k, p[2] * k >>

\* QTransform().rotate(a).map(p) for the angles rotate() treats exactly
Rot(a, p) ==
    CASE a = 0 -> p
      [] a = 90 \/ a = 0 - 270 -> << 0 - p[2], p[1] >>
      [] a = 270 \/ a = 0 - 90 -> << p[2], 0 - p[1] >>
      [] a = 180 \/ a = 0 - 180 -> << 0 - p[1], 0 - p[2] >>

\* QGraphicsItem.mapToParent / mapFromParent of an ROI whose pos and transform were
\* set by setPos and setAngle
mapToParent(st, p) == PAdd(Rot(st.angle, p), st.pos)
mapFromParent(st, p) == Rot(0 - st.angle, PSub(p, st.pos))

\* ---------------------------------------------------------------- the world
\* The mutable fields the ROI methods read and write, threaded through the calls.
World == [state |-> state, lastState |-> lastState, freeHandleMoved |-> freeHandleMoved,
          itemPos |-> itemPos, hIsMoving |-> hIsMoving, hStartPos |-> hStartPos,
          hCursorOffset |-> hCursorOffset, preMoveState |-> preMoveState,
          rIsMoving |-> rIsMoving, rCursorOffset |-> rCursorOffset,
          sig |-> [r \in ROIs |-> << >>], calls |-> << >>]

Apply(w) ==
    /\ state' = w.state
    /\ lastState' = w.lastState
    /\ freeHandleMoved' = w.freeHandleMoved
    /\ itemPos' = w.itemPos
    /\ hIsMoving' = w.hIsMoving
    /\ hStartPos' = w.hStartPos
    /\ hCursorOffset' = w.hCursorOffset
    /\ preMoveState' = w.preMoveState
    /\ rIsMoving' = w.rIsMoving
    /\ rCursorOffset' = w.rCursorOffset
    /\ sig' = w.sig
    /\ calls' = w.calls

emit(w, r, s) == [w EXCEPT !.sig[r] = Append(@, s)]

stateCopy(st) == [pos |-> << st.pos[1], st.pos[2] >>, size |-> << st.size[1], st.size[2] >>,
                  angle |-> st.angle]

StateKeys == {"pos", "size", "angle"}

\* tuple(p) of a Point and Point(t) of a tuple: the two coordinates, in order
tuple(p) == << p[1], p[2] >>
Point(t) == << t[1], t[2] >>

\* ROI.getState: the dict returned, and which of its parts (the dict itself, its
\* Points) are objects the ROI keeps using
getState_shared(w, r) == [value |-> w.state[r], shared |-> {"dict", "pos", "size"}]

getState(w, r) == [value |-> stateCopy(w.state[r]), shared |-> {}]

\* ROI.saveState
saveState(w, r) ==
    [pos |-> tuple(w.state[r].pos), size |-> tuple(w.state[r].size),
     angle |-> w.state[r].angle]

stateChangeFinished(w, r) == emit(w, r, "sigRegionChangeFinished")

RECURSIVE moveHandles_unscaled(_, _, _)
moveHandles_unscaled(w, r, k) ==
    IF k > Len(handles[r]) THEN w
    ELSE LET h == handles[r][k]
             w1 == IF itemParent[h.item] = r
                   THEN [w EXCEPT !.itemPos[h.item] = h.pos]
                   ELSE w
         IN moveHandles_unscaled(w1, r, k + 1)

\* the loop of stateChanged over self.handles, entries k..Len
RECURSIVE moveHandles(_, _, _)
moveHandles(w, r, k) ==
    IF k > Len(handles[r]) THEN w
    ELSE LET h == handles[r][k]
             w1 == IF itemParent[h.item] = r
                   THEN [w EXCEPT !.itemPos[h.item] = PMul(h.pos, w.state[r].size)]
                   ELSE w
         IN moveHandles(w1, r, k + 1)

stateChanged_finishAlways(w, r, finish) ==
    LET changed == \/ w.lastState[r] = None
                   \/ \E k \in StateKeys : w.state[r][k] # Val(w.lastState[r])[k]
        w1 == IF changed THEN emit(moveHandles(w, r, 1), r, "sigRegionChanged")
              ELSE IF w.freeHandleMoved[r] THEN emit(w, r, "sigRegionChanged")
              ELSE w
        w2 == [w1 EXCEPT !.freeHandleMoved[r] = FALSE,
                         !.lastState[r] = Some(stateCopy(w1.state[r]))]
    IN stateChangeFinished(w2, r)

stateChanged_noFreeHandle(w, r, finish) ==
    LET changed == \/ w.lastState[r] = None
                   \/ \E k \in StateKeys : w.state[r][k] # Val(w.lastState[r])[k]
        w1 == IF changed THEN emit(moveHandles(w, r, 1), r, "sigRegionChanged") ELSE w
        w2 == [w1 EXCEPT !.freeHandleMoved[r] = FALSE,
                         !.lastState[r] = Some(stateCopy(w1.state[r]))]
    IN IF finish THEN stateChangeFinished(w2, r) ELSE w2

stateChanged_always(w, r, finish) ==
    LET w1 == emit(moveHandles(w, r, 1), r, "sigRegionChanged")
        w2 == [w1 EXCEPT !.freeHandleMoved[r] = FALSE,
                         !.lastState[r] = Some(stateCopy(w1.state[r]))]
    IN IF finish THEN stateChangeFinished(w2, r) ELSE w2

stateChanged(w, r, finish) ==
    LET changed == \/ w.lastState[r] = None
                   \/ \E k \in StateKeys : w.state[r][k] # Val(w.lastState[r])[k]
        w1 == IF changed THEN emit(moveHandles(w, r, 1), r, "sigRegionChanged")
              ELSE IF w.freeHandleMoved[r] THEN emit(w, r, "sigRegionChanged")
              ELSE w
        w2 == [w1 EXCEPT !.freeHandleMoved[r] = FALSE,
                         !.lastState[r] = Some(stateCopy(w1.state[r]))]
    IN IF finish THEN stateChangeFinished(w2, r) ELSE w2

setPos_finishForcesUpdate(w, r, pos, update, finish) ==
    LET w1 == [w EXCEPT !.state[r].pos = pos]
    IN IF update \/ finish THEN stateChanged(w1, r, finish) ELSE w1

setPos(w, r, pos, update, finish) ==
    LET w1 == [w EXCEPT !.state[r].pos = pos]
    IN IF update THEN stateChanged(w1, r, finish) ELSE w1

setSize(w, r, size, update, finish) ==
    LET w1 == [w EXCEPT !.state[r].size = size]
    IN IF update THEN stateChanged(w1, r, finish) ELSE w1

setAngle(w, r, angle, update, finish) ==
    LET w1 == [w EXCEPT !.state[r].angle = angle]
    IN IF update THEN stateChanged(w1, r, finish) ELSE w1

setState_updateEach(w, r, st, update) ==
    setAngle(setSize(setPos(w, r, st.pos, update, TRUE), r, st.size, update, TRUE),
             r, st.angle, update, TRUE)

setState(w, r, st, update) ==
    setAngle(setSize(setPos(w, r, st.pos, FALSE, TRUE), r, st.size, FALSE, TRUE),
             r, st.angle, update, TRUE)

scale_aboutOrigin(w, r, s, center, update, finish) ==
    setPos(setSize(w, r, PScale(w.state[r].size, s), FALSE, TRUE), r, w.state[r].pos,
           update, finish)

scale(w, r, s, center, update, finish) ==
    LET st == w.state[r]
        c == mapToParent(st, PMul(center, st.size))
        newSize == PScale(st.size, s)
        c1 == mapToParent(st, PMul(center, newSize))
        newPos == PSub(PAdd(st.pos, c), c1)
    IN setPos(setSize(w, r, newSize, FALSE, TRUE), r, newPos, update, finish)

rotate(w, r, angle, update, finish) ==
    setAngle(w, r, stateCopy(w.state[r]).angle + angle, update, finish)

\* ---------------------------------------------------------------- snapping and bounds
Abs(n) == IF n < 0 THEN 0 - n ELSE n

\* Python's round(p / s) for s > 0: halves go away from zero in Python 2 and to the
\* even neighbour in Python 3
round(p, s) ==
    IF pyRound = "away"
    THEN (IF p < 0 THEN 0 - 1 ELSE 1) * ((2 * Abs(p) + s) \div (2 * s))
    ELSE LET q == p \div s
             rem == p - q * s
         IN IF 2 * rem < s THEN q
            ELSE IF 2 * rem > s THEN q + 1
            ELSE IF q % 2 = 0 THEN q ELSE q + 1

\* the snap argument: None, False, True or a Point
SnapNone == [kind |-> "None", pt |-> << 0, 0 >>]
SnapFalse == [kind |-> "False", pt |-> << 0, 0 >>]
SnapTrue == [kind |-> "True", pt |-> << 0, 0 >>]
SnapPoint(p) == [kind |-> "Point", pt |-> p]

getSnapPosition_floor(r, pos, snap) ==
    IF snap.kind \in {"None", "True"} /\ cfg[r].snapSize = None THEN pos
    ELSE LET sn == IF snap.kind \in {"None", "True"}
                   THEN << Val(cfg[r].snapSize), Val(cfg[r].snapSize) >>
                   ELSE snap.pt
         IN << (pos[1] \div sn[1]) * sn[1], (pos[2] \div sn[2]) * sn[2] >>

getSnapPosition(r, pos, snap) ==
    IF snap.kind \in {"None", "True"} /\ cfg[r].snapSize = None THEN pos
    ELSE LET sn == IF snap.kind \in {"None", "True"}
                   THEN << Val(cfg[r].snapSize), Val(cfg[r].snapSize) >>
                   ELSE snap.pt
         IN << round(pos[1], sn[1]) * sn[1], round(pos[2], sn[2]) * sn[2] >>

\* QRectF: x, y, width, height; a negative width or height is kept as given
Rect(x, y, w, h) == [x |-> x, y |-> y, w |-> w, h |-> h]
left(rc) == rc.x
right(rc) == rc.x + rc.w
top(rc) == rc.y
bottom(rc) == rc.y + rc.h

Min2(a, b) == IF a < b THEN a ELSE b
Max2(a, b) == IF a > b THEN a ELSE b

\* QTransform().rotate(a).mapRect(rc): the identity leaves rc as it is, a rotation
\* gives the bounding rectangle of the four mapped corners
mapRect(a, rc) ==
    IF a = 0 THEN rc
    ELSE LET p1 == Rot(a, << left(rc), top(rc) >>)
             p2 == Rot(a, << right(rc), bottom(rc) >>)
             x0 == Min2(p1[1], p2[1])
             y0 == Min2(p1[2], p2[2])
         IN Rect(x0, y0, Max2(p1[1], p2[1]) - x0, Max2(p1[2], p2[2]) - y0)

stateRect(st) ==
    LET rc == mapRect(0 - st.angle, Rect(0, 0, st.size[1], st.size[2]))
    IN Rect(rc.x + st.pos[1], rc.y + st.pos[2], rc.w, rc.h)

\* the displacement translate() adds to keep rectangle rc within maxBounds mb
boundsShift(mb, rc) ==
    << IF left(mb) > left(rc) THEN left(mb) - left(rc)
       ELSE IF right(mb) < right(rc) THEN right(mb) - right(rc) ELSE 0,
       IF top(mb) > top(rc) THEN top(mb) - top(rc)
       ELSE IF bottom(mb) < bottom(rc) THEN bottom(mb) - bottom(rc) ELSE 0 >>

\* the position translate() hands to setPos
translateTarget_noclamp(r, st, pt, snap) ==
    LET p0 == PAdd(stateCopy(st).pos, pt)
        sn == IF snap.kind = "None"
              THEN (IF cfg[r].translateSnap THEN SnapTrue ELSE SnapFalse)
              ELSE snap
    IN IF sn.kind # "False" THEN getSnapPosition(r, p0, sn) ELSE p0

translateTarget_snapflag(r, st, pt, snap) ==
    LET p0 == PAdd(stateCopy(st).pos, pt)
        sn == IF snap.kind = "None" THEN SnapTrue ELSE snap
        p1 == IF sn.kind # "False" THEN getSnapPosition(r, p0, sn) ELSE p0
    IN IF cfg[r].maxBounds # None
       THEN PAdd(p1, boundsShift(Val(cfg[r].maxBounds), stateRect([st EXCEPT !.pos = p1])))
       ELSE p1

translateTarget(r, st, pt, snap) ==
    LET p0 == PAdd(stateCopy(st).pos, pt)
        sn == IF snap.kind = "None"
              THEN (IF cfg[r].translateSnap THEN SnapTrue ELSE SnapFalse)
              ELSE snap
        p1 == IF sn.kind # "False" THEN getSnapPosition(r, p0, sn) ELSE p0
    IN IF cfg[r].maxBounds # None
       THEN PAdd(p1, boundsShift(Val(cfg[r].maxBounds), stateRect([st EXCEPT !.pos = p1])))
       ELSE p1

translate(w, r, pt, snap, update, finish) ==
    setPos(w, r, translateTarget(r, w.state[r], pt, snap), update, finish)

\* ---------------------------------------------------------------- handles
\* ROI.checkPointMove: "By default, this always returns True"
ROI_checkPointMove(r, pt, pos, modifiers) == TRUE

\* r[0].checkPointMove(...): "Subclasses may wish override"; the ROIs in veto are
\* instances of a subclass that refuses the move
checkPointMove(r, pt, pos, modifiers) ==
    IF r \in veto THEN FALSE ELSE ROI_checkPointMove(r, pt, pos, modifiers)

\* QRectF.contains(QRectF): both rectangles are normalised, and a rectangle of no width
\* or no height neither contains nor is contained
contains(mb, rc) ==
    LET l1 == Min2(left(mb), right(mb))
        r1 == Max2(left(mb), right(mb))
        t1 == Min2(top(mb), bottom(mb))
        b1 == Max2(top(mb), bottom(mb))
        l2 == Min2(left(rc), right(rc))
        r2 == Max2(left(rc), right(rc))
        t2 == Min2(top(rc), bottom(rc))
        b2 == Max2(top(rc), bottom(rc))
    IN /\ l1 # r1 /\ l2 # r2 /\ ~(l2 < l1 \/ r2 > r1)
       /\ t1 # b1 /\ t2 # b2 /\ ~(t2 < t1 \/ b2 > b1)

\* a / b for b # 0 dividing a
Div(a, b) == IF b < 0 THEN (0 - a) \div (0 - b) ELSE a \div b

\* ROI.aspectLocked, False except in CircleROI
aspectLocked(r) == FALSE

\* "if h['center'][i] == h['pos'][i]: lp1[i] = 0"
scaleAxes(c, hpos, lp) ==
    << IF c[1] = hpos[1] THEN 0 ELSE lp[1], IF c[2] = hpos[2] THEN 0 ELSE lp[2] >>

\* "lp1[i] = round(lp1[i] / self.snapSize) * self.snapSize"
scaleSnapped(lp, sn) == << round(lp[1], sn) * sn, round(lp[2], sn) * sn >>

\* "hs = h['pos'] - c", with a zero component replaced by 1
handleSpan(hpos, c) ==
    << IF hpos[1] = c[1] THEN 1 ELSE hpos[1] - c[1], IF hpos[2] = c[2] THEN 1 ELSE hpos[2] - c[2] >>

\* the corrections and limit checks on newSize: a zero component, and a negative one
\* of an ROI that is not invertible, keeps the old size
limitSize(raw, old, inv) ==
    << IF raw[1] = 0 \/ (~inv /\ raw[1] < 0) THEN old[1] ELSE raw[1],
       IF raw[2] = 0 \/ (~inv /\ raw[2] < 0) THEN old[2] ELSE raw[2] >>

\* the state after the scale: the new size, and the position that keeps the centre in place
scaledState(st, c, newSize) ==
    [stateCopy(st) EXCEPT
        !.size = newSize,
        !.pos = PAdd(st.pos, PSub(mapToParent(st, PSub(PMul(c, st.size), PMul(c, newSize))),
                                  mapToParent(st, << 0, 0 >>)))]

\* the size the 's' branch computes for a handle without lockAspect moved to p1
scaledSize(st, r, h, p1, modifiers) ==
    LET lp == scaleAxes(h.center, h.pos, PSub(mapFromParent(st, p1), PMul(h.center, st.size)))
        hs == handleSpan(h.pos, h.center)
        lp1 == IF cfg[r].scaleSnap \/ "Ctrl" \in modifiers
               THEN scaleSnapped(lp, Val(cfg[r].snapSize))
               ELSE lp
        lim == limitSize(<< Div(lp1[1], hs[1]), Div(lp1[2], hs[2]) >>, st.size, cfg[r].invertible)
    IN IF aspectLocked(r) THEN << lim[2], lim[2] >> ELSE lim

\* the 's' branch of ROI.movePoint for a handle without lockAspect: the new world, and
\* whether movePoint returns before its call of stateChanged
movePoint_scale(w, r, h, p1, modifiers) ==
    LET newState == scaledState(w.state[r], h.center, scaledSize(w.state[r], r, h, p1, modifiers))
    IN IF cfg[r].maxBounds # None /\ ~contains(Val(cfg[r].maxBounds), stateRect(newState))
       THEN [w |-> w, returned |-> TRUE]
       ELSE [w |-> setSize(setPos(w, r, newState.pos, FALSE, TRUE), r, newState.size, FALSE, TRUE),
             returned |-> FALSE]

\* ROI.movePoint for the handle types of the modelled ROIs: 't', 'f' and 's'
ROI_movePoint(w, r, pt, pos, modifiers, finish) ==
    LET h == handles[r][pt]
        st == w.state[r]
        p0 == mapToParent(st, PMul(h.pos, st.size))
        p1 == pos
        m == CASE h.type = "t" ->
                    [w |-> translate(w, r, PSub(p1, p0),
                                     IF "Ctrl" \in modifiers THEN SnapTrue ELSE SnapNone,
                                     FALSE, TRUE),
                     returned |-> FALSE]
               [] h.type = "f" ->
                    [w |-> [w EXCEPT !.itemPos[h.item] = mapFromParent(st, pos),
                                     !.freeHandleMoved[r] = TRUE],
                     returned |-> FALSE]
               [] h.type = "s" -> movePoint_scale(w, r, h, p1, modifiers)
    IN IF m.returned THEN m.w ELSE stateChanged(m.w, r, finish)

logCall(w, r, pt, pos, finish) == [w EXCEPT !.calls = Append(@, << r, pt, pos, finish >>)]

\* the second loop of Handle.movePoint, connections k..Len
RECURSIVE informROIs(_, _, _, _, _, _)
informROIs(w, h, k, pos, modifiers, finish) ==
    IF k > Len(hroi[h]) THEN w
    ELSE LET c == hroi[h][k]
         IN informROIs(ROI_movePoint(logCall(w, c[1], c[2], pos, finish),
                                     c[1], c[2], pos, modifiers, finish),
                       h, k + 1, pos, modifiers, finish)

\* checks each ROI just before moving it, instead of checking all of them first
RECURSIVE informROIs_checking(_, _, _, _, _, _)
informROIs_checking(w, h, k, pos, modifiers, finish) ==
    IF k > Len(hroi[h]) THEN w
    ELSE LET c == hroi[h][k]
         IN IF ~checkPointMove(c[1], c[2], pos, modifiers) THEN w
            ELSE informROIs_checking(ROI_movePoint(logCall(w, c[1], c[2], pos, finish),
                                                   c[1], c[2], pos, modifiers, finish),
                                     h, k + 1, pos, modifiers, finish)

Handle_movePoint_interleaved(w, h, pos, modifiers, finish) ==
    informROIs_checking(w, h, 1, pos, modifiers, finish)

Handle_movePoint(w, h, pos, modifiers, finish) ==
    IF \E k \in 1 .. Len(hroi[h]) : ~checkPointMove(hroi[h][k][1], hroi[h][k][2], pos, modifiers)
    THEN w
    ELSE informROIs(w, h, 1, pos, modifiers, finish)

\* Handle.scenePos(): the handle's position mapped through its parent ROI
scenePos(w, h) == mapToParent(w.state[itemParent[h]], w.itemPos[h])

\* ROI.handleMoveStarted for every ROI connected to h, connections k..Len
RECURSIVE startAll(_, _, _)
startAll(w, h, k) ==
    IF k > Len(hroi[h]) THEN w
    ELSE startAll([w EXCEPT !.preMoveState[hroi[h][k][1]] = Some(stateCopy(w.state[hroi[h][k][1]]))],
                  h, k + 1)

\* ROI.stateChangeFinished for every ROI connected to h, connections k..Len
RECURSIVE finishAll(_, _, _)
finishAll(w, h, k) ==
    IF k > Len(hroi[h]) THEN w
    ELSE finishAll(stateChangeFinished(w, hroi[h][k][1]), h, k + 1)

\* Handle.mouseDragEvent(ev); ev has button, phase ("start", "move", "finish"),
\* scenePos, buttonDownScenePos and modifiers
Handle_mouseDragEvent_noMovingTest(w, h, ev) ==
    IF ev.button # "Left" THEN w
    ELSE LET w1 == IF ev.phase = "finish"
                   THEN [finishAll(w, h, 1) EXCEPT !.hIsMoving[h] = FALSE]
                   ELSE IF ev.phase = "start"
                   THEN [startAll(w, h, 1) EXCEPT
                            !.hIsMoving[h] = TRUE,
                            !.hStartPos[h] = scenePos(w, h),
                            !.hCursorOffset[h] = PSub(scenePos(w, h), ev.buttonDownScenePos)]
                   ELSE w
         IN IF ev.phase # "finish"
            THEN Handle_movePoint(w1, h, PAdd(ev.scenePos, w1.hCursorOffset[h]),
                                  ev.modifiers, FALSE)
            ELSE w1

Handle_mouseDragEvent(w, h, ev) ==
    IF ev.button # "Left" THEN w
    ELSE LET w1 == IF ev.phase = "finish"
                   THEN [(IF w.hIsMoving[h] THEN finishAll(w, h, 1) ELSE w)
                            EXCEPT !.hIsMoving[h] = FALSE]
                   ELSE IF ev.phase = "start"
                   THEN [startAll(w, h, 1) EXCEPT
                            !.hIsMoving[h] = TRUE,
                            !.hStartPos[h] = scenePos(w, h),
                            !.hCursorOffset[h] = PSub(scenePos(w, h), ev.buttonDownScenePos)]
                   ELSE w
         IN IF w1.hIsMoving[h]
            THEN Handle_movePoint(w1, h, PAdd(ev.scenePos, w1.hCursorOffset[h]),
                                  ev.modifiers, FALSE)
            ELSE w1

\* buttons a Handle accepts clicks of: none, or the right button when deletable
acceptedMouseButtons(h) == IF h = "d" THEN {"Right"} ELSE {}

\* Handle.mouseClickEvent(ev): a right click cancels the drag; an accepted click only
\* raises the context menu and Handle.sigClicked, any other click is ignored
Handle_mouseClickEvent(w, h, ev) ==
    IF ev.button = "Right" /\ w.hIsMoving[h]
    THEN Handle_movePoint([w EXCEPT !.hIsMoving[h] = FALSE], h, w.hStartPos[h], {}, TRUE)
    ELSE w

\* ROI.cancelMove
cancelMove_noRestore(w, r) == [w EXCEPT !.rIsMoving[r] = FALSE]

cancelMove(w, r) ==
    setState([w EXCEPT !.rIsMoving[r] = FALSE], r, Val(w.preMoveState[r]), TRUE)

\* ROI.mouseDragEvent(ev); ev has button, buttons (those held down), phase, pos and
\* buttonDownPos (in the ROI's coordinates) and modifiers
ROI_mouseDragEvent(w, r, ev) ==
    LET st == w.state[r]
        w1 == IF ev.phase = "start"
              THEN IF ev.button = "Left" /\ cfg[r].translatable
                   THEN [w EXCEPT !.rIsMoving[r] = TRUE,
                                  !.preMoveState[r] = Some(stateCopy(st)),
                                  !.rCursorOffset[r] =
                                      PSub(st.pos, mapToParent(st, ev.buttonDownPos))]
                   ELSE w
              ELSE IF ev.phase = "finish" /\ cfg[r].translatable
              THEN [(IF w.rIsMoving[r] THEN stateChangeFinished(w, r) ELSE w)
                       EXCEPT !.rIsMoving[r] = FALSE]
              ELSE w
    IN IF ev.phase # "finish" /\ cfg[r].translatable /\ w1.rIsMoving[r]
          /\ ev.buttons = {"Left"}
       THEN LET newPos == PAdd(mapToParent(st, ev.pos), w1.rCursorOffset[r])
            IN translate(w1, r, PSub(newPos, st.pos),
                         IF "Ctrl" \in ev.modifiers THEN SnapTrue ELSE SnapNone,
                         TRUE, FALSE)
       ELSE w1

\* ROI.mouseClickEvent(ev): a right click while moving cancels the move; an accepted
\* click only emits sigClicked, any other click is ignored
ROI_mouseClickEvent(w, r, ev) ==
    IF ev.button = "Right" /\ w.rIsMoving[r] THEN cancelMove(w, r) ELSE w

\* ---------------------------------------------------------------- ScanCanvasItem
\* (acq4/util/Canvas/items/ScanCanvasItem.py)  Spot sizes are in micrometres.
defaultSize == 100

\* d.info() of a directory: whether it has a 'Scanner' entry, and whether that entry
\* has a 'position' and a 'spotSize'
DirInfo(scanner, position, spotSize) ==
    [scanner |-> scanner, position |-> position, spotSize |-> spotSize]
DirInfos == {DirInfo(FALSE, FALSE, None), DirInfo(TRUE, FALSE, None),
             DirInfo(TRUE, TRUE, None), DirInfo(TRUE, TRUE, Some(50))}

RECURSIVE SeqsUpTo(_, _)
SeqsUpTo(S, n) ==
    IF n = 0 THEN {<< >>}
    ELSE LET shorter == SeqsUpTo(S, n - 1)
         IN shorter \cup {Append(q, x) : q \in shorter, x \in S}

\* the options and the data a ScanCanvasItem is constructed from: opts['handle'] (if
\* given) with its type, its own info() and its sub-directories, and opts['subDirs']
ScanOpts ==
    [hasHandle : BOOLEAN, dirType : {"ProtocolSequence", "Protocol", "Image"},
     handleInfo : {DirInfo(FALSE, FALSE, None), DirInfo(TRUE, TRUE, Some(50))},
     children : SeqsUpTo(DirInfos, MaxDirs),
     subDirs : {None} \cup {Some(q) : q \in SeqsUpTo(DirInfos, MaxDirs)}]

Outcome(raised, init, pts, size) ==
    [raised |-> raised, canvasItemInit |-> init, pts |-> pts, originalSpotSize |-> size]

NoScan == [opts |-> None, out |-> Outcome(None, FALSE, << >>, None)]

\* the loop "for d in dirs" over entries k..Len: acc holds pts and the local size
RECURSIVE collectSpots(_, _, _)
collectSpots(dirs, k, acc) ==
    IF k > Len(dirs) THEN acc
    ELSE LET d == dirs[k]
         IN IF d.scanner /\ d.position
            THEN LET size == IF d.spotSize # None THEN Val(d.spotSize) ELSE defaultSize
                 IN collectSpots(dirs, k + 1,
                                 [pts |-> Append(acc.pts, [pos |-> k, size |-> size]),
                                  size |-> Some(size)])
            ELSE collectSpots(dirs, k + 1, acc)

\* the directories ScanCanvasItem.__init__ reads the spots from
scanDirs(o) ==
    IF o.subDirs # None THEN Val(o.subDirs)
    ELSE IF o.dirType = "ProtocolSequence" THEN o.children
    ELSE << o.handleInfo >>

\* initialises the CanvasItem with whatever spots there are
ScanCanvasItem_init_noCheck(o) ==
    IF ~o.hasHandle THEN Outcome(Some("must be initialized with 'handle'"), FALSE, << >>, None)
    ELSE LET acc == collectSpots(scanDirs(o), 1, [pts |-> << >>, size |-> None])
         IN Outcome(None, TRUE, acc.pts, acc.size)

\* ScanCanvasItem.__init__(**opts), up to self.originalSpotSize = size
ScanCanvasItem_init(o) ==
    IF ~o.hasHandle THEN Outcome(Some("must be initialized with 'handle'"), FALSE, << >>, None)
    ELSE IF o.subDirs = None /\ o.dirType \notin {"ProtocolSequence", "Protocol"}
    THEN Outcome(Some("Invalid dir type"), FALSE, << >>, None)
    ELSE LET acc == collectSpots(scanDirs(o), 1, [pts |-> << >>, size |-> None])
         IN IF Len(acc.pts) = 0
            THEN Outcome(Some("No data found in scan"), FALSE, acc.pts, None)
            ELSE Outcome(None, TRUE, acc.pts, acc.size)

\* ---------------------------------------------------------------- construction
\* The handles the ROI subclasses add after ROI.__init__, in the order they are added.
\* Handle "a" is created by ROI 1 and shared with ROI 2; handle "d" is created by
\* ROI 2 and shared with ROI 1 (as PolyLineROI shares the handles of its segments).
AddPlan == <<
    [roi |-> 1, type |-> "t", pos |-> << 1, 1 >>, item |-> "a", new |-> TRUE],
    [roi |-> 2, type |-> "f", pos |-> << 1, 0 >>, item |-> "d", new |-> TRUE],
    [roi |-> 2, type |-> "t", pos |-> << 0, 0 >>, item |-> "a", new |-> FALSE],
    [roi |-> 1, type |-> "f", pos |-> << 0, 1 >>, item |-> "b", new |-> TRUE],
    [roi |-> 1, type |-> "t", pos |-> << 1, 0 >>, item |-> "d", new |-> FALSE] >>

NoParent == 0

Op(name, r, h, update, finish, arg) ==
    [name |-> name, roi |-> r, item |-> h, update |-> update, finish |-> finish, arg |-> arg]

\* state after the field assignments of ROI.__init__ (before its setPos call)
InitCommon ==
    /\ state = [r \in ROIs |-> [pos |-> << 0, 0 >>, size |-> << 1, 1 >>, angle |-> 0]]
    /\ lastState = [r \in ROIs |-> None]
    /\ freeHandleMoved = [r \in ROIs |-> FALSE]
    /\ handles = [r \in ROIs |-> << >>]
    /\ itemParent = [i \in Items |-> NoParent]
    /\ itemPos = [i \in Items |-> << 0, 0 >>]
    /\ hroi = [i \in Items |-> << >>]
    /\ hIsMoving = [i \in Items |-> FALSE]
    /\ hStartPos = [i \in Items |-> << 0, 0 >>]
    /\ hCursorOffset = [i \in Items |-> << 0, 0 >>]
    /\ preMoveState = [r \in ROIs |-> None]
    /\ rIsMoving = [r \in ROIs |-> FALSE]
    /\ rCursorOffset = [r \in ROIs |-> << 0, 0 >>]
    /\ dragging = None
    /\ caller = [saved |-> None]
    /\ scan = NoScan
    /\ sig = [r \in ROIs |-> << >>]
    /\ calls = << >>
    /\ op = Op("none", 0, "", FALSE, FALSE, 0)

\* arguments the ROIs are constructed with
ConstructArgs(r) ==
    IF r = 1 THEN {<< << 0, 0 >>, << 1, 1 >>, 0 >>, << << 1, 0 >>, << 2, 1 >>, 90 >>}
    ELSE {<< << 1, 1 >>, << 1, 1 >>, 0 >>}

\* the rest of ROI.__init__: setPos(pos), setAngle(angle), setSize(size)
Construct(r) ==
    /\ lastState[r] = None
    /\ \E a \in ConstructArgs(r) :
          /\ Apply(setSize(setAngle(setPos(World, r, a[1], TRUE, TRUE), r, a[3], TRUE, TRUE),
                           r, a[2], TRUE, TRUE))
          /\ op' = Op("__init__", r, "", TRUE, TRUE, a)
    /\ UNCHANGED << static, dragging >>

\* ROI.addHandle(info) on the handle tables t, for entry e of AddPlan
addHandle(t, e) ==
    LET info == [type |-> e.type, pos |-> e.pos, item |-> e.item]
    IN [handles |-> [t.handles EXCEPT ![e.roi] = Append(@, info)],
        hroi |-> [t.hroi EXCEPT ![e.item] = Append(@, << e.roi, Len(t.handles[e.roi]) + 1 >>)],
        itemParent |-> IF e.new THEN [t.itemParent EXCEPT ![e.item] = e.roi]
                       ELSE t.itemParent,
        itemPos |-> IF e.new
                    THEN [t.itemPos EXCEPT ![e.item] = PMul(e.pos, state[e.roi].size)]
                    ELSE t.itemPos]

RECURSIVE addHandles(_, _)
addHandles(t, k) ==
    IF k > Len(AddPlan) THEN t ELSE addHandles(addHandle(t, AddPlan[k]), k + 1)

\* the addHandle calls of the subclass constructors, once every ROI.__init__ has run
SetupHandles ==
    /\ \A r \in ROIs : lastState[r] # None /\ handles[r] = << >>
    /\ LET t == addHandles([handles |-> handles, hroi |-> hroi, itemParent |-> itemParent,
                            itemPos |-> itemPos], 1)
       IN /\ handles' = t.handles
          /\ hroi' = t.hroi
          /\ itemParent' = t.itemParent
          /\ itemPos' = t.itemPos
    /\ op' = Op("addHandle", 0, "", FALSE, FALSE, 0)
    /\ sig' = [r \in ROIs |-> << >>]
    /\ calls' = << >>
    /\ UNCHANGED << state, lastState, freeHandleMoved, cfg, veto, pyRound, hIsMoving, hStartPos,
                   hCursorOffset, preMoveState, rIsMoving, rCursorOffset, caller, scan, dragging >>

\* ---------------------------------------------------------------- ROI operations
\* the model follows the ROI while its state stays within the bounds
StateOK(w, r) ==
    /\ w.state[r].pos \in PosIn
    /\ w.state[r].size \in SizeIn
    /\ w.state[r].angle \in Angles

Reach == ((0 - MaxReach) .. MaxReach) \X ((0 - MaxReach) .. MaxReach)

Call(w, r, o) ==
    /\ lastState[r] # None
    /\ StateOK(w, r)
    /\ Apply(w)
    /\ op' = o
    /\ UNCHANGED << static, dragging >>

CallSetPos(r) ==
    \E pos \in PosIn, update \in BOOLEAN, finish \in BOOLEAN :
        Call(setPos(World, r, pos, update, finish), r, Op("setPos", r, "", update, finish, pos))

CallSetSize(r) ==
    \E size \in SizeIn, update \in BOOLEAN, finish \in BOOLEAN :
        Call(setSize(World, r, size, update, finish), r, Op("setSize", r, "", update, finish, size))

CallSetAngle(r) ==
    \E angle \in AnglesIn, update \in BOOLEAN, finish \in BOOLEAN :
        Call(setAngle(World, r, angle, update, finish), r, Op("setAngle", r, "", update, finish, angle))

CallScale(r) ==
    \E s \in {1, 2}, center \in {<< 0, 0 >>, << 1, 1 >>}, update \in BOOLEAN, finish \in BOOLEAN :
        Call(scale(World, r, s, center, update, finish), r, Op("scale", r, "", update, finish, << s, center >>))

CallRotate(r) ==
    \E angle \in {0, 90}, update \in BOOLEAN, finish \in BOOLEAN :
        Call(rotate(World, r, angle, update, finish), r, Op("rotate", r, "", update, finish, angle))

CallTranslate(r) ==
    \E pt \in {<< 0, 0 >>, << 1, 0 >>, << 0 - 1, 1 >>}, snap \in {SnapNone, SnapFalse},
       update \in BOOLEAN, finish \in BOOLEAN :
        Call(translate(World, r, pt, snap, update, finish), r,
             Op("translate", r, "", update, finish, << pt, snap >>))

\* setState(s) with s a state saved earlier
CallSetState(r) ==
    \E s \in {[pos |-> << 0, 0 >>, size |-> << 1, 1 >>, angle |-> 0],
              [pos |-> << 0, 1 >>, size |-> << 2, 1 >>, angle |-> 0],
              [pos |-> << 1, 0 >>, size |-> << 2, 2 >>, angle |-> 90]},
       update \in BOOLEAN :
        Call(setState(World, r, s, update), r, Op("setState", r, "", update, TRUE, s))

CallStateChanged(r) ==
    \E finish \in BOOLEAN :
        Call(stateChanged(World, r, finish), r, Op("stateChanged", r, "", TRUE, finish, 0))

CallStateChangeFinished(r) ==
    Call(stateChangeFinished(World, r), r, Op("stateChangeFinished", r, "", FALSE, TRUE, 0))

\* ROI.movePoint(pt, pos, finish=finish) called on the ROI directly
CallMovePoint(r) ==
    \E pt \in 1 .. Len(handles[r]), pos \in {<< 1, 1 >>}, finish \in BOOLEAN :
        Call(ROI_movePoint(World, r, pt, pos, {}, finish), r,
             Op("movePoint", r, handles[r][pt].item, TRUE, finish, << pt, pos >>))

\* ---------------------------------------------------------------- specification: state changes and signals
Cfg(mb, sn, ts) == [maxBounds |-> mb, snapSize |-> sn, translateSnap |-> ts,
                    translatable |-> TRUE, invertible |-> FALSE, scaleSnap |-> FALSE]

Init ==
    /\ InitCommon
    /\ cfg = [r \in ROIs |-> Cfg(None, Some(1), FALSE)]
    /\ veto = {}
    /\ pyRound = "away"

Next ==
    \/ Construct(1)
    \/ CallSetPos(1)
    \/ CallSetSize(1)
    \/ CallSetAngle(1)
    \/ CallScale(1)
    \/ CallRotate(1)
    \/ CallTranslate(1)
    \/ CallSetState(1)
    \/ CallStateChanged(1)
    \/ CallStateChangeFinished(1)

Spec == Init /\ [][Next]_vars

\* ---------------------------------------------------------------- specification: handles
NextHandles ==
    \/ \E r \in ROIs : Construct(r)
    \/ SetupHandles
    \/ CallSetPos(1)
    \/ CallSetSize(1)
    \/ CallSetAngle(1)
    \/ CallStateChanged(1)
    \/ CallStateChangeFinished(1)
    \/ CallMovePoint(1)

SpecHandles == Init /\ [][NextHandles]_vars

\* ---------------------------------------------------------------- specification: snapping and bounds
\* translate(pt, snap=snap) with the default update and finish
CallTranslateSnap(r) ==
    \E pt \in {<< 1, 0 >>, << 0 - 2, 1 >>, << 0, 0 - 1 >>, << 3, 2 >>},
       snap \in {SnapNone, SnapFalse, SnapTrue, SnapPoint(<< 2, 3 >>)} :
        LET w == translate(World, r, pt, snap, TRUE, TRUE)
        IN /\ lastState[r] # None
           /\ w.state[r].pos \in Reach
           /\ Apply(w)
           /\ op' = Op("translate", r, "", TRUE, TRUE, << pt, snap >>)
           /\ UNCHANGED << static, dragging >>

InitBounds ==
    /\ InitCommon
    /\ \E mb \in {None, Some(Rect(0, 0, 3, 3)), Some(Rect(1, 1, 1, 1))},
          sn \in {None, Some(2)}, ts \in BOOLEAN :
          cfg = [r \in ROIs |-> Cfg(mb, sn, ts)]
    /\ veto = {}
    /\ pyRound \in {"away", "even"}

NextBounds ==
    \/ Construct(1)
    \/ CallTranslateSnap(1)

SpecBounds == InitBounds /\ [][NextBounds]_vars

\* ---------------------------------------------------------------- specification: dragging handles
\* The scene delivers to the dragged handle a start event, then move events, then a
\* finish event; clicks of another button may arrive in between.
DragItems == {"a"}                 \* the handle the user drags: the shared one
ScenePts == {<< 0, 0 >>, << 1, 1 >>}
DownOffsets == {<< 0, 0 >>, << 1, 0 >>}

Event(button, phase, sp, down, mods) ==
    [button |-> button, phase |-> phase, scenePos |-> sp, buttonDownScenePos |-> down,
     modifiers |-> mods]

Deliver(w, h, name, ev, wasMoving) ==
    /\ \A r \in ROIs : w.state[r].pos \in Reach
    /\ Apply(w)
    /\ op' = Op(name, 0, h, TRUE, FALSE,
                [button |-> ev.button, phase |-> ev.phase, wasMoving |-> wasMoving,
                 pos |-> IF name = "mouseClickEvent" THEN hStartPos[h]
                         ELSE PAdd(ev.scenePos, w.hCursorOffset[h])])
    /\ UNCHANGED static

DragStart(h) ==
    /\ dragging = None
    /\ hroi[h] # << >>
    /\ \E button \in {"Left", "Right"}, sp \in ScenePts, off \in DownOffsets :
          LET ev == Event(button, "start", sp, PAdd(scenePos(World, h), off), {})
          IN /\ Deliver(Handle_mouseDragEvent(World, h, ev), h, "mouseDragEvent", ev,
                        hIsMoving[h])
             /\ dragging' = Some(<< h, button >>)

DragMove(h) ==
    /\ dragging # None /\ Val(dragging)[1] = h
    /\ \E sp \in ScenePts, mods \in {{}, {"Ctrl"}} :
          LET ev == Event(Val(dragging)[2], "move", sp, << 0, 0 >>, mods)
          IN Deliver(Handle_mouseDragEvent(World, h, ev), h, "mouseDragEvent", ev,
                     hIsMoving[h])
    /\ UNCHANGED dragging

DragFinish(h) ==
    /\ dragging # None /\ Val(dragging)[1] = h
    /\ \E sp \in ScenePts :
          LET ev == Event(Val(dragging)[2], "finish", sp, << 0, 0 >>, {})
          IN Deliver(Handle_mouseDragEvent(World, h, ev), h, "mouseDragEvent", ev,
                     hIsMoving[h])
    /\ dragging' = None

Click(h) ==
    /\ hroi[h] # << >>
    /\ \E button \in {"Left", "Right"} :
          LET ev == Event(button, "click", << 0, 0 >>, << 0, 0 >>, {})
          IN /\ dragging # None => button # Val(dragging)[2]
             /\ Deliver(Handle_mouseClickEvent(World, h, ev), h, "mouseClickEvent", ev,
                        hIsMoving[h])
    /\ UNCHANGED dragging

InitDrag ==
    /\ InitCommon
    /\ \E ts \in BOOLEAN : cfg = [r \in ROIs |-> Cfg(None, Some(2), ts)]
    /\ veto \in {{}, {1}, {2}}
    /\ pyRound = "away"

NextDrag ==
    \/ \E r \in ROIs : Construct(r)
    \/ SetupHandles
    \/ \E h \in DragItems : DragStart(h)
    \/ \E h \in DragItems : DragMove(h)
    \/ \E h \in DragItems : DragFinish(h)
    \/ \E h \in DragItems : Click(h)

SpecDrag == InitDrag /\ [][NextDrag]_vars

\* ---------------------------------------------------------------- specification: dragging the ROI
\* The scene delivers to the dragged ROI a start event, then move events, then a finish
\* event; clicks of another button may arrive in between.  A handle may be dragged
\* instead, and the program may resize the ROI at any time.
Body == "roi"                      \* the drag target that is ROI 1 itself
LocalPts == {<< 0, 0 >>, << 1, 0 >>}
BodyHandles == {"b"}               \* the handle dragged here: a free handle of ROI 1

BodyEvent(button, buttons, phase, pos, down, mods) ==
    [button |-> button, buttons |-> buttons, phase |-> phase, pos |-> pos,
     buttonDownPos |-> down, modifiers |-> mods]

DeliverBody(w, r, name, ev, wasMoving) ==
    /\ w.state[r].pos \in Reach
    /\ Apply(w)
    /\ op' = Op(name, r, "", TRUE, FALSE,
                [button |-> ev.button, phase |-> ev.phase, wasMoving |-> wasMoving,
                 pos |-> ev.pos])
    /\ UNCHANGED static

BodyDragStart(r) ==
    /\ dragging = None
    /\ lastState[r] # None
    /\ \E button \in {"Left", "Right"}, pos \in LocalPts :
          LET ev == BodyEvent(button, {button}, "start", pos, << 0, 0 >>, {})
          IN /\ DeliverBody(ROI_mouseDragEvent(World, r, ev), r, "ROI.mouseDragEvent", ev,
                            rIsMoving[r])
             /\ dragging' = Some(<< Body, button >>)

BodyDragMove(r) ==
    /\ dragging # None /\ Val(dragging)[1] = Body
    /\ \E pos \in LocalPts, mods \in {{}, {"Ctrl"}}, more \in SUBSET {"Right"} :
          LET ev == BodyEvent(Val(dragging)[2], {Val(dragging)[2]} \cup more, "move", pos,
                              << 0, 0 >>, mods)
          IN DeliverBody(ROI_mouseDragEvent(World, r, ev), r, "ROI.mouseDragEvent", ev,
                         rIsMoving[r])
    /\ UNCHANGED dragging

BodyDragFinish(r) ==
    /\ dragging # None /\ Val(dragging)[1] = Body
    /\ LET ev == BodyEvent(Val(dragging)[2], {}, "finish", << 0, 0 >>, << 0, 0 >>, {})
       IN DeliverBody(ROI_mouseDragEvent(World, r, ev), r, "ROI.mouseDragEvent", ev,
                      rIsMoving[r])
    /\ dragging' = None

BodyClick(r) ==
    /\ lastState[r] # None
    /\ \E button \in {"Left", "Right"} :
          LET ev == BodyEvent(button, {button}, "click", << 0, 0 >>, << 0, 0 >>, {})
          IN /\ dragging # None => button # Val(dragging)[2]
             /\ DeliverBody(ROI_mouseClickEvent(World, r, ev), r, "ROI.mouseClickEvent", ev,
                            rIsMoving[r])
    /\ UNCHANGED dragging

\* setSize(size) with the default update and finish, called by the program while the
\* user drags the ROI
CallSetSizeDefault(r) ==
    \E size \in SizeIn :
        rIsMoving[r] /\ Call(setSize(World, r, size, TRUE, TRUE), r, Op("setSize", r, "", TRUE, TRUE, size))

InitBody ==
    /\ InitCommon
    /\ \E movable \in BOOLEAN :
          cfg = [r \in ROIs |-> [Cfg(None, Some(2), FALSE) EXCEPT !.translatable = movable]]
    /\ veto = {}
    /\ pyRound = "away"

NextBody ==
    \/ \E r \in ROIs : Construct(r)
    \/ SetupHandles
    \/ BodyDragStart(1)
    \/ BodyDragMove(1)
    \/ BodyDragFinish(1)
    \/ BodyClick(1)
    \/ \E h \in BodyHandles : DragStart(h)
    \/ \E h \in BodyHandles : DragMove(h)
    \/ \E h \in BodyHandles : DragFinish(h)
    \/ CallSetSizeDefault(1)

SpecBody == InitBody /\ [][NextBody]_vars

\* ---------------------------------------------------------------- specification: saving and restoring
\* s = saveState()
CallSaveState(r) ==
    /\ lastState[r] # None
    /\ Apply(World)
    /\ caller' = [caller EXCEPT !.saved = Some(saveState(World, r))]
    /\ op' = Op("saveState", r, "", FALSE, FALSE, 0)
    /\ UNCHANGED << handles, itemParent, cfg, hroi, veto, pyRound, scan, dragging >>

\* setState(s, update) with the s saved last
CallSetStateSaved(r) ==
    /\ caller.saved # None
    /\ \E update \in BOOLEAN :
          LET s == Val(caller.saved)
          IN Call(setState(World, r, [pos |-> Point(s.pos), size |-> Point(s.size),
                                      angle |-> s.angle], update),
                  r, Op("setState", r, "", update, TRUE, s))

\* d = getState() followed by a change of d by the program: d[k][i] = v on one of
\* its Points, or d['angle'] = v; the ROI sees the change if that part of d is an
\* object it holds
CallGetStateAndMutate(r) ==
    /\ lastState[r] # None
    /\ \E k \in StateKeys, i \in 1 .. 2, v \in {0, 2} :
          LET g == getState(World, r)
              d == g.value
              new == IF k = "angle" THEN v ELSE [d[k] EXCEPT ![i] = v]
              seen == IF k = "angle" THEN "dict" \in g.shared ELSE k \in g.shared
              w == IF seen THEN [World EXCEPT !.state[r][k] = new] ELSE World
          IN /\ Apply(w)
             /\ op' = Op("getState", r, "", FALSE, FALSE, [d EXCEPT ![k] = new])
    /\ UNCHANGED << static, dragging >>

NextSave ==
    \/ Construct(1)
    \/ CallSetState(1)
    \/ CallSetSize(1)
    \/ CallSaveState(1)
    \/ CallSetStateSaved(1)
    \/ CallGetStateAndMutate(1)

SpecSave == Init /\ [][NextSave]_vars

\* ---------------------------------------------------------------- specification: getSnapPosition
\* getSnapPosition(pos, snap) for positions within reach and snap None, True or a Point
CallGetSnapPosition(r) ==
    /\ lastState[r] # None
    /\ \E pos \in Reach, snap \in {SnapNone, SnapTrue, SnapPoint(<< 2, 3 >>), SnapPoint(<< 1, 2 >>)} :
          /\ Apply(World)
          /\ op' = Op("getSnapPosition", r, "", FALSE, FALSE,
                      [pos |-> pos, snap |-> snap, result |-> getSnapPosition(r, pos, snap)])
    /\ UNCHANGED << static, dragging >>

InitSnap ==
    /\ InitCommon
    /\ \E sn \in {None, Some(1), Some(2), Some(3)} :
          cfg = [r \in ROIs |-> Cfg(None, sn, FALSE)]
    /\ veto = {}
    /\ pyRound \in {"away", "even"}

NextSnap ==
    \/ Construct(1)
    \/ CallGetSnapPosition(1)

SpecSnap == InitSnap /\ [][NextSnap]_vars

\* ---------------------------------------------------------------- specification: ScanCanvasItem
\* ScanCanvasItem(**opts), once
NewScanCanvasItem ==
    /\ scan.opts = None
    /\ \E o \in ScanOpts : scan' = [opts |-> Some(o), out |-> ScanCanvasItem_init(o)]
    /\ Apply(World)
    /\ op' = Op("ScanCanvasItem.__init__", 0, "", FALSE, FALSE, 0)
    /\ UNCHANGED << handles, itemParent, cfg, hroi, veto, pyRound, caller, dragging >>

NextScan == NewScanCanvasItem

SpecScan == Init /\ [][NextScan]_vars

\* ---------------------------------------------------------------- specification: a bounded RectROI
\* RectROI(pos, size, maxBounds=..., invertible=...): ROI.__init__, then
\* addScaleHandle([1, 1], [0, 0]); the rectangle starts inside maxBounds
RectArgs == {<< << 1, 1 >>, << 1, 1 >> >>, << << 2, 1 >>, << 1, 2 >> >>}

RectROI_init(r) ==
    /\ lastState[r] = None
    /\ \E a \in RectArgs :
          LET w == setSize(setAngle(setPos(World, r, a[1], TRUE, TRUE), r, 0, TRUE, TRUE),
                           r, a[2], TRUE, TRUE)
              info == [type |-> "s", pos |-> << 1, 1 >>, center |-> << 0, 0 >>, item |-> "a"]
          IN /\ Apply([w EXCEPT !.itemPos["a"] = PMul(info.pos, w.state[r].size)])
             /\ handles' = [handles EXCEPT ![r] = Append(@, info)]
             /\ hroi' = [hroi EXCEPT !["a"] = Append(@, << r, Len(handles[r]) + 1 >>)]
             /\ itemParent' = [itemParent EXCEPT !["a"] = r]
             /\ op' = Op("RectROI.__init__", r, "", TRUE, TRUE, a)
    /\ UNCHANGED << cfg, veto, pyRound, caller, scan, dragging >>

\* scene positions a handle of the bounded ROI is moved to
HandleTargets == {0, 2, MaxReach} \X {0, 2, MaxReach}

\* ROI.movePoint(pt, pos, modifiers, finish) for a handle of a bounded ROI
CallMovePointBounded(r) ==
    /\ lastState[r] # None
    /\ \E pt \in 1 .. Len(handles[r]), pos \in HandleTargets, mods \in {{}, {"Ctrl"}}, finish \in BOOLEAN :
          LET w == ROI_movePoint(World, r, pt, pos, mods, finish)
          IN /\ Apply(w)
             /\ op' = Op("movePoint", r, handles[r][pt].item, TRUE, finish, << pt, pos >>)
    /\ UNCHANGED << static, dragging >>

InitRect ==
    /\ InitCommon
    /\ \E inv \in BOOLEAN :
          cfg = [r \in ROIs |-> [Cfg(Some(Rect(0, 0, 3, 3)), Some(1), FALSE)
                                    EXCEPT !.invertible = inv]]
    /\ veto = {}
    /\ pyRound = "away"

NextRect ==
    \/ RectROI_init(1)
    \/ CallTranslateSnap(1)
    \/ CallMovePointBounded(1)

SpecRect == InitRect /\ [][NextRect]_vars

\* ---------------------------------------------------------------- claims
Changed == "sigRegionChanged"
Finished == "sigRegionChangeFinished"
Count(q, x) == Cardinality({i \in DOMAIN q : q[i] = x})
Dirty(r) == state[r] # Val(lastState[r]) \/ freeHandleMoved[r]

C2_NoUpdateNoSignal ==
    (op.name \in {"setPos", "setSize", "setAngle"} /\ ~op.update)
        => /\ \A r \in ROIs : sig[r] = << >>
           /\ op.name = "setPos" => state[op.roi].pos = op.arg
           /\ op.name = "setSize" => state[op.roi].size = op.arg
           /\ op.name = "setAngle" => state[op.roi].angle = op.arg

C2_Witness ==
    /\ op.name = "setSize" /\ ~op.update /\ op.finish
    /\ state[1].size = op.arg /\ state[1].size # Val(lastState[1]).size

\* C3: a state-setting call (setPos, setSize, setAngle, translate, scale, rotate) with
\* update=True and finish=False does not emit sigRegionChangeFinished; a following
\* stateChangeFinished() emits sigRegionChangeFinished exactly once.
Setters == {"setPos", "setSize", "setAngle", "translate", "scale", "rotate"}

C3_FinishDeferred ==
    /\ []((op.name \in Setters /\ op.update /\ ~op.finish) => Count(sig[op.roi], Finished) = 0)
    /\ [][(op.name \in Setters /\ op.update /\ ~op.finish /\ op'.name = "stateChangeFinished")
            => sig'[op'.roi] = << Finished >>]_vars

C3_Witness ==
    op.name = "scale" /\ op.update /\ ~op.finish /\ sig[1] = << Changed >>

\* C4: state changes made with update=False followed by one stateChanged() (as
\* setState does) are processed as one change: sigRegionChanged is emitted at most
\* once and sigRegionChangeFinished exactly once, however many components changed.
C4_BatchOneChange ==
    ((op.name = "setState" /\ op.update) \/ (op.name = "stateChanged" /\ op.finish))
        => /\ Count(sig[op.roi], Changed) <= 1
           /\ Count(sig[op.roi], Finished) = 1
           /\ Len(sig[op.roi]) = Count(sig[op.roi], Changed) + 1

C4_Witness ==
    /\ op.name = "setState" /\ op.update /\ sig[1] = << Changed, Finished >>
    /\ state[1] = [pos |-> << 1, 0 >>, size |-> << 2, 2 >>, angle |-> 90]

\* C5: stateChanged(finish) emits sigRegionChanged if and only if the state differs
\* from the state recorded at the previous stateChanged call, or none was recorded
\* yet, or a free handle has moved since then; with finish it then also emits
\* sigRegionChangeFinished, after sigRegionChanged, whether or not anything changed.
C5_StateChanged ==
    [][/\ op'.name = "stateChanged"
          => sig'[1] = (IF Dirty(1) THEN << Changed >> ELSE << >>)
                       \o (IF op'.finish THEN << Finished >> ELSE << >>)
       /\ (op'.name = "movePoint" /\ handles[1][op'.arg[1]].type = "f")
          => sig'[1] = << Changed >> \o (IF op'.finish THEN << Finished >> ELSE << >>)
       /\ op'.name = "__init__"
          => SubSeq(sig'[op'.roi], 1, 2) = << Changed, Finished >>]_vars

C5_Witness ==
    /\ op.name = "movePoint" /\ op.item = "b" /\ ~op.finish /\ sig[1] = << Changed >>
    /\ itemPos["b"] # PMul(<< 0, 1 >>, state[1].size)

\* C6: whenever stateChanged detects a change of state, every handle whose item is a
\* child of the ROI ends up at its relative position h['pos'] multiplied
\* component-wise by the ROI's current size.
C6_HandlesFollow ==
    [][lastState'[1] # lastState[1]
        => \A k \in 1 .. Len(handles[1]) :
              itemParent[handles[1][k].item] = 1
                  => itemPos'[handles[1][k].item] = PMul(handles[1][k].pos, state'[1].size)]_vars

C6_Witness ==
    /\ op.name = "setSize" /\ op.update /\ Count(sig[1], Changed) = 1
    /\ state[1].size = << 2, 1 >>
    /\ itemPos["a"] = << 2, 1 >> /\ itemPos["b"] = << 0, 1 >>
    /\ itemParent["d"] = 2 /\ itemPos["d"] # PMul(handles[1][3].pos, state[1].size)

\* rectangle rc lies inside rectangle mb (both of non-negative width and height)
Inside(mb, rc) ==
    /\ left(mb) <= left(rc) /\ right(rc) <= right(mb)
    /\ top(mb) <= top(rc) /\ bottom(rc) <= bottom(mb)
Fits(mb, rc) == 0 <= rc.w /\ rc.w <= mb.w /\ 0 <= rc.h /\ rc.h <= mb.h
RectAt(st, p) == stateRect([st EXCEPT !.pos = p])

\* q is a point of the grid of spacing g nearest to p
OnGrid(q, g) == q[1] % g[1] = 0 /\ q[2] % g[2] = 0
SnapOf(q, p, g) ==
    /\ OnGrid(q, g)
    /\ 2 * Abs(q[1] - p[1]) <= g[1] /\ 2 * Abs(q[2] - p[2]) <= g[2]

\* the grid translate(snap=sn) is documented to use for ROI r, or None
GridFor(r, sn) ==
    CASE sn.kind = "False" -> None
      [] sn.kind = "Point" -> Some(sn.pt)
      [] sn.kind = "True" ->
            IF cfg[r].snapSize = None THEN None
            ELSE Some(<< Val(cfg[r].snapSize), Val(cfg[r].snapSize) >>)
      [] sn.kind = "None" ->
            IF cfg[r].translateSnap /\ cfg[r].snapSize # None
            THEN Some(<< Val(cfg[r].snapSize), Val(cfg[r].snapSize) >>) ELSE None

MovePointCalled ==
    \/ /\ op.name = "mouseDragEvent" /\ op.arg.button = "Left"
       /\ op.arg.phase = "start" \/ (op.arg.phase = "move" /\ op.arg.wasMoving)
    \/ op.name = "mouseClickEvent" /\ op.arg.button = "Right" /\ op.arg.wasMoving
Refused(h) == \E k \in 1 .. Len(hroi[h]) : hroi[h][k][1] \in veto
CallsToAll(h, pos, finish) ==
    [k \in 1 .. Len(hroi[h]) |-> << hroi[h][k][1], hroi[h][k][2], pos, finish >>]

\* C9: Handle.movePoint asks every connected ROI (checkPointMove) before moving any:
\* if one of them refuses, no connected ROI's movePoint is invoked; ROI.checkPointMove
\* itself accepts every move, and when all accept, each connected ROI's movePoint is
\* invoked once, in order, with its own handle index.
C9_AllOrNothing ==
    MovePointCalled
        => IF Refused(op.item)
           THEN calls = << >> /\ \A r \in ROIs : sig[r] = << >>
           ELSE calls = CallsToAll(op.item, op.arg.pos, op.name = "mouseClickEvent")

C9_Witness ==
    /\ MovePointCalled /\ op.arg.phase = "move" /\ veto = {2}
    /\ Len(hroi[op.item]) = 2 /\ calls = << >>

Cancelled == op.name = "mouseClickEvent" /\ op.arg.button = "Right" /\ op.arg.wasMoving

HandleDragStarts ==
    op'.name = "mouseDragEvent" /\ op'.arg.phase = "start" /\ op'.arg.button = "Left"
BodyDragStarts ==
    /\ op'.name = "ROI.mouseDragEvent" /\ op'.arg.phase = "start" /\ op'.arg.button = "Left"
    /\ cfg[op'.roi].translatable
BodyCancelled ==
    op.name = "ROI.mouseClickEvent" /\ op.arg.button = "Right" /\ op.arg.wasMoving

\* C11: preMoveState is the state (pos, size, angle) the ROI had when the current drag
\* started, set at the start of a drag of the ROI and of a drag of one of its handles,
\* and it is not modified during the drag; cancelMove, triggered by a right click while
\* the ROI is moving, sets isMoving to False and restores pos, size and angle to
\* exactly preMoveState.
C11_PreMoveState ==
    /\ [][BodyDragStarts
            => preMoveState'[op'.roi] = Some(state[op'.roi]) /\ rIsMoving'[op'.roi]]_vars
    /\ [][HandleDragStarts
            => \A k \in 1 .. Len(hroi[op'.item]) :
                  preMoveState'[hroi[op'.item][k][1]] = Some(state[hroi[op'.item][k][1]])]_vars
    /\ [][~(BodyDragStarts \/ HandleDragStarts) => preMoveState' = preMoveState]_vars
    /\ [](BodyCancelled
            => ~rIsMoving[op.roi] /\ state[op.roi] = Val(preMoveState[op.roi]))

C11_Witness ==
    /\ BodyCancelled /\ sig[1] = << Changed, Finished >>
    /\ state[1] = Val(preMoveState[1]) /\ ~rIsMoving[1]

C13_ScaleAboutCenter ==
    [][op'.name = "scale"
        => LET s == op'.arg[1]
               center == op'.arg[2]
           IN /\ state'[1].size = << state[1].size[1] * s, state[1].size[2] * s >>
              /\ state'[1].angle = state[1].angle
              /\ mapToParent(state'[1], PMul(center, state'[1].size))
                    = mapToParent(state[1], PMul(center, state[1].size))]_vars

C13_Witness ==
    /\ op.name = "scale" /\ op.arg = << 2, << 1, 1 >> >>
    /\ state[1] = [pos |-> << 1, 0 >>, size |-> << 2, 2 >>, angle |-> 90]

\* the grid getSnapPosition(pos, snap) uses for ROI r, or None
SnapGrid(r, sn) ==
    IF sn.kind = "Point" THEN Some(sn.pt)
    ELSE IF cfg[r].snapSize = None THEN None
    ELSE Some(<< Val(cfg[r].snapSize), Val(cfg[r].snapSize) >>)

\* C14: getSnapPosition(pos, snap) returns the nearest snap-to position: each
\* coordinate of the result is a multiple of the grid spacing (snap, or snapSize when
\* snap is None or True), no grid point is closer to pos, snapping the result again
\* returns it unchanged, and with snap None or True and snapSize None the result is pos.
C14_NearestSnap ==
    op.name = "getSnapPosition"
        => LET pos == op.arg.pos
               q == op.arg.result
               g == SnapGrid(op.roi, op.arg.snap)
           IN IF g = None THEN q = pos
              ELSE /\ OnGrid(q, Val(g))
                   /\ \A i \in 1 .. 2 :
                         \A k \in (0 - MaxReach - 1) .. (MaxReach + 1) :
                            Abs(k * Val(g)[i] - pos[i]) >= Abs(q[i] - pos[i])
                   /\ getSnapPosition(op.roi, q, op.arg.snap) = q

C14_Witness ==
    /\ op.name = "getSnapPosition" /\ pyRound = "even"
    /\ op.arg.pos = << 1, 0 - 2 >> /\ op.arg.snap = SnapPoint(<< 2, 3 >>)
    /\ op.arg.result = << 0, 0 - 3 >>

\* directory d carries a Scanner position
Carries(d) == d.scanner /\ d.position

\* C15: constructing a ScanCanvasItem for a scan none of whose directories carries a
\* Scanner position raises an Exception ("No data found in scan ...") before the
\* CanvasItem is initialised; a handle whose directory type is neither
\* 'ProtocolSequence' nor 'Protocol' raises an Exception when subDirs is not supplied.
C15_ScanExceptions ==
    (scan.opts # None /\ Val(scan.opts).hasHandle)
        => LET o == Val(scan.opts)
               invalid == o.subDirs = None /\ o.dirType \notin {"ProtocolSequence", "Protocol"}
               dirs == IF o.subDirs # None THEN Val(o.subDirs)
                       ELSE IF o.dirType = "ProtocolSequence" THEN o.children
                       ELSE << o.handleInfo >>
           IN /\ invalid => (scan.out.raised # None /\ ~scan.out.canvasItemInit)
              /\ (~invalid /\ \A k \in 1 .. Len(dirs) : ~Carries(dirs[k]))
                    => /\ scan.out.raised = Some("No data found in scan")
                       /\ ~scan.out.canvasItemInit

C15_Witness ==
    /\ scan.opts # None /\ Val(scan.opts).hasHandle
    /\ Val(scan.opts).subDirs = None /\ Val(scan.opts).dirType = "ProtocolSequence"
    /\ Val(scan.opts).children = << DirInfo(TRUE, FALSE, None), DirInfo(FALSE, FALSE, None) >>
    /\ scan.out.raised = Some("No data found in scan") /\ ~scan.out.canvasItemInit

\* the rectangle with its corners in order: left <= right, top <= bottom
Normalized(rc) ==
    Rect(Min2(left(rc), right(rc)), Min2(top(rc), bottom(rc)), Abs(rc.w), Abs(rc.h))

\* C16 (as stated): the state rectangle of a bounded ROI that starts inside maxBounds
\* lies inside maxBounds after any sequence of translate() calls and handle moves.
C16_Original ==
    (lastState[1] # None /\ cfg[1].maxBounds # None)
        => Inside(Val(cfg[1].maxBounds), Normalized(stateRect(state[1])))

====
